---- MODULE Spec2Model ----
(***************************************************************************)
(* State-machine model of CAttackPoisoning                                 *)
(* (src/src/secml/adv/attacks/poisoning/c_attack_poisoning.py): the cached *)
(* poisoned classifier (_update_poisoned_clf), the objective callbacks,    *)
(* the single-point routine _run and the multi-point loop of run.          *)
(*                                                                         *)
(* A feature matrix is a sequence of rows; the classifier has one feature  *)
(* (n_features = 1), so a row is one number of Vals.  A Python value that  *)
(* may be None is None (the empty tuple) or Some(v) (a one-element tuple). *)
(***************************************************************************)
EXTENDS Integers, Sequences, FiniteSets, TLC

\* ------------------------------------------------------------- bounds ---
MaxPoints == 2      \* largest n_points value a caller sets
MaxVal    == 1      \* feature values range over 0..MaxVal
MaxIter   == 2      \* largest max_iter argument of run
MaxEvals  == 2      \* callbacks the optimizer makes in one maximize/minimize
MaxRuns   == 2      \* calls of run on one attack instance
MaxWarm   == 1      \* largest warm-start dataset (ds_init) passed to run
MaxSamples == 2     \* most samples in the argument of one callback
MaxEntry  == 2      \* largest entry of a Hessian H
MaxGrad   == 2      \* largest component of a raw gradient
MaxSv     == 2      \* most support vectors of a fitted SVM
SvmC      == 3      \* the bound C of the dual coefficients, in units of tol

\* ------------------------------------------------------ optional values --
None == <<>>
Some(v) == <<v>>
Get(o) == o[1]

Vals == 0..MaxVal
Labels == {0, 1}
Matrices(n) == [1..n -> Vals]
LabelVecs(n) == [1..n -> Labels]

\* --------------------------------------------- classifiers and datasets --
\* A dataset is its base set plus the poisoning samples appended to it.
surrogate_data == [base |-> "surrogate_data", X |-> <<>>, Y |-> <<>>]
training_data == [base |-> "training_data", X |-> <<>>, Y |-> <<>>]
validation_data == [base |-> "validation_data", X |-> <<>>, Y |-> <<>>]

\* A classifier object: whether it is one of the two base objects handed to
\* the constructor or a copy, the base object it descends from, and the
\* dataset of its last fit.  The base classifiers come fitted on their sets.
classifier == [obj |-> "base", base |-> "classifier", tr |-> training_data]
solver_clf == [obj |-> "base", base |-> "surrogate_classifier",
               tr |-> surrogate_data]

CDataset(X, Y) == [base |-> "", X |-> X, Y |-> Y]
append(tr, ds) == [tr EXCEPT !.X = @ \o ds.X, !.Y = @ \o ds.Y]

\* A copy that is the object itself.
deepcopy_alias(clf) == clf

\* clf.deepcopy(): a new object with the content of clf.
deepcopy(clf) == [clf EXCEPT !.obj = "copy"]

\* The content of the object clf after clf.fit(tr).
fit(clf, tr) == [clf EXCEPT !.tr = tr]

\* The objects handed to the constructor, by name, with their content.
Objects0 == [classifier |-> classifier, surrogate_classifier |-> solver_clf,
             training_data |-> training_data,
             surrogate_data |-> surrogate_data,
             validation_data |-> validation_data]

\* fit works in place: the objects objs after the fit that left clf; a base
\* object that was fitted has changed, a copy is none of the objects.
fitted_in_place(objs, clf) ==
    IF clf.obj = "base" THEN [objs EXCEPT ![clf.base] = clf] ELSE objs

\* Content digest of a feature matrix (CArray.sha1): equal digests iff
\* equal shape and content.
sha1(a) == <<"sha1", Len(a), a>>

\* A distance that looks at the first row only.
norm_first_row_sq(a, b) ==
    IF Len(a) = 0 THEN 0 ELSE (a[1] - b[1]) * (a[1] - b[1])

RECURSIVE SumSq(_, _, _)
SumSq(a, b, j) == IF j = 0 THEN 0
                  ELSE (a[j] - b[j]) * (a[j] - b[j]) + SumSq(a, b, j - 1)
\* Square of (a - b).norm_2d(); it is zero iff the norm is.
norm_2d_sq(a, b) == SumSq(a, b, Len(a))

VARIABLES
    self_n_points,      \* self._n_points
    self_xc,            \* self._xc
    self_yc,            \* self._yc
    self_idx,           \* self._idx
    self_xc_hash,       \* self._xc_hash
    self_poisoned_clf,  \* self._poisoned_clf
    self_f_opt,         \* self._f_opt: Some(r) is the value found in run r
    self_warm_start,    \* self._warm_start
    self_val,           \* self._val
    self_y_target,      \* self._y_target
    self_init_type,     \* self.init_type
    self_attacker_loss, \* self._attacker_loss (the name of the loss)
    ctor,               \* probe: the arguments the constructor was given
    raised,             \* the exception that ended the last call, if any
    arg,                \* probe: the argument of the callback just made
    objects,            \* the objects handed to the constructor
    calc,               \* a gradient computation: its inputs, its results
    pc,                 \* where the caller of the attack stands
    xc,                 \* locals of run
    yc,
    xc_prv,
    delta,
    k,
    max_iter,
    i,
    solver,             \* the optimizer created by _init_solver, while it runs
    result,             \* what the last call of run returned, with its probes
    acc,                \* probe: the last call of _update_poisoned_clf
    probe,              \* probe: counters of the run in progress
    runs                \* number of calls of run so far

vars == <<self_n_points, self_xc, self_yc, self_idx, self_xc_hash,
          self_poisoned_clf, self_f_opt, self_warm_start, pc, xc, yc, xc_prv,
          delta, k, max_iter, i, solver, result, acc, probe, runs,
          self_val, self_y_target, self_init_type, self_attacker_loss, ctor,
          raised, arg, objects, calc>>

\* What the constructor sets and no later operation of the model changes.
config == <<self_val, self_y_target, self_init_type, self_attacker_loss,
            ctor>>

fields == <<self_xc, self_yc, self_idx, self_xc_hash, self_poisoned_clf,
            self_f_opt, self_warm_start>>
locals == <<xc, yc, xc_prv, delta, k, max_iter, i>>

NoAcc == [any |-> FALSE]
NoCalc == [kind |-> "none"]
NoProbe == [n |-> None, max_iter |-> 0, ds_init |-> None, rounds |-> 0,
            opt_calls |-> 0, order |-> <<>>, init_calls |-> 0, fits |-> 0,
            y_true |-> <<>>, yc_init |-> <<>>, yc_start |-> <<>>]

\* --------------------------------------------------------- construction --
\* The arguments the constructor is called with: the family of the targeted
\* classifier ("other" is any family but the three named in __init__), the
\* discrete flag, the validation set, the target label, the initialization
\* strategy ("other" is any string but the two named in run).
ClassTypes == {"svm", "logistic", "ridge", "other"}
ValArgs == {None, Some(validation_data)}
YTargets == {None, Some(1)}
InitTypes == {"random", "loss_based", "other"}

\* A mapping that falls back on the square loss.
loss_name_default(class_type) ==
    IF class_type = "svm" THEN Some("hinge")
    ELSE IF class_type = "logistic" THEN Some("log")
    ELSE Some("square")

\* The loss __init__ picks for a classifier family; None stands for
\* raise NotImplementedError("We cannot poisoning that classifier").
loss_name(class_type) ==
    IF class_type = "svm" THEN Some("hinge")
    ELSE IF class_type = "logistic" THEN Some("log")
    ELSE IF class_type = "ridge" THEN Some("square")
    ELSE None

\* The exception __init__ raises for its arguments, None if it returns.
init_error(class_type, discrete) ==
    IF discrete THEN Some("ValueError")
    ELSE IF loss_name(class_type) = None THEN Some("NotImplementedError")
    ELSE None

\* The state after the constructor was called: an attack object with its
\* fields set (pc = "idle"), or no object at all (pc = "failed").
Constructed ==
    \E class_type \in ClassTypes, discrete \in BOOLEAN, val \in ValArgs,
       y_target \in YTargets, init_type \in InitTypes :
       LET built == init_error(class_type, discrete) = None IN
       /\ ctor = [class_type |-> class_type, discrete |-> discrete]
       /\ raised = init_error(class_type, discrete)
       /\ pc = IF built THEN "idle" ELSE "failed"
       /\ self_attacker_loss = IF built THEN loss_name(class_type) ELSE None
       /\ self_val = IF built THEN val ELSE None
       /\ self_y_target = IF built THEN y_target ELSE None
       /\ self_init_type = IF built THEN Some(init_type) ELSE None
       /\ self_n_points = None
       /\ self_xc = None
       /\ self_yc = None
       /\ self_idx = None
       /\ self_xc_hash = None
       /\ self_poisoned_clf = None
       /\ self_f_opt = None
       /\ xc = <<>>
       /\ yc = <<>>
       /\ xc_prv = <<>>
       /\ delta = 0
       /\ k = 0
       /\ max_iter = 0
       /\ i = 0
       /\ solver = None
       /\ result = None
       /\ acc = NoAcc
       /\ probe = NoProbe
       /\ runs = 0
       /\ arg = None
       /\ objects = Objects0

Init ==
    /\ Constructed
    /\ self_warm_start = None
    /\ calc = NoCalc

\* ---------------------------------------------------------------- cache --
\* A retraining test that ignores a fingerprint that differs.
must_retrain_unset_only(hash, xc_hash) == hash = None

\* "xc set has changed, retrain clf".
must_retrain(hash, xc_hash) == hash = None \/ hash # Some(xc_hash)

\* A fingerprint that is never stored.
stored_hash_never(xc_hash, xc_hash_is_valid) == None

\* "hash is stored only if update_poisoned_clf() is called w/out pars".
stored_hash(xc_hash, xc_hash_is_valid) ==
    IF xc_hash_is_valid THEN Some(xc_hash) ELSE None

\* _update_poisoned_clf(clf, tr) on the fields (X, Y, hash, cached) and the
\* constructor's objects objs; clf and tr are None or Some(override), an
\* override being one of these objects.  The value is the new fingerprint, the new
\* cached classifier, the pair returned and the number of retrainings.
update_poisoned_clf(objs, X, Y, hash, cached, clf, tr) ==
    LET xc_hash_is_valid == clf = None /\ tr = None
        clf1 == objs[IF clf = None THEN "surrogate_classifier"
                     ELSE Get(clf).base]
        tr0 == objs[IF tr = None THEN "surrogate_data" ELSE Get(tr).base]
        tr1 == append(tr0, CDataset(X, Y))
        xc_hash == sha1(X)
        retrain == must_retrain(hash, xc_hash)
        fitted == fit(deepcopy(clf1), tr1)
    IN  [X |-> X,
         hash |-> IF retrain THEN stored_hash(xc_hash, xc_hash_is_valid)
                  ELSE hash,
         cached |-> IF retrain THEN Some(fitted) ELSE cached,
         clf |-> IF retrain THEN fitted ELSE Get(cached),
         tr |-> tr1,
         fits |-> IF retrain THEN 1 ELSE 0,
         objects |-> IF retrain THEN fitted_in_place(objs, fitted) ELSE objs]

\* The probe of one cache access: what the access saw and what it did;
\* prev is the probe of the access before it, u what the access computed.
Access(prev, hash, cached, clf, tr, u) ==
    [any |-> TRUE,
     override |-> ~(clf = None /\ tr = None),
     had_clf |-> cached # None,
     had_prev |-> prev.any,
     changed |-> prev.any /\ prev.X # u.X,
     after_override_fit |-> prev.any /\ prev.override /\ prev.fits > 0,
     fits |-> u.fits,
     X |-> u.X,
     Y |-> u.tr.Y,
     clf |-> u.clf]

\* A callback that always writes the first row.
active_row_first(idx) == 0

\* "index of poisoning point within xc": the row a callback writes.
active_row(idx) == IF idx = None THEN 0 ELSE Get(idx)

\* The state change shared by _objective_function(x) and
\* _objective_function_gradient(x) for a single sample x: row idx of
\* self._xc is set to x and the cache is accessed without overrides.
evaluate(objs, X, Y, idx, hash, cached, x) ==
    update_poisoned_clf(objs, [X EXCEPT ![active_row(idx) + 1] = x],
                        Y, hash, cached, None, None)

\* A caller of the cache (a subclass, a test) that has the poisoning set
\* loaded in self._xc / self._yc: it may have rewritten one feature
\* (w = Some(<<idx, x>>)) since the last access, and passes the overrides
\* it wants.
CacheAccess(clf, tr, w) ==
    /\ pc = "idle"
    /\ self_xc # None
    /\ LET X == IF w = None THEN Get(self_xc)
                ELSE [Get(self_xc) EXCEPT ![Get(w)[1] + 1] = Get(w)[2]]
           u == update_poisoned_clf(objects, X, Get(self_yc), self_xc_hash,
                                    self_poisoned_clf, clf, tr)
       IN  /\ self_xc' = Some(X)
           /\ self_xc_hash' = u.hash
           /\ self_poisoned_clf' = u.cached
           /\ objects' = u.objects
           /\ acc' = Access(acc, self_xc_hash, self_poisoned_clf, clf, tr, u)
    /\ raised' = None
    /\ arg' = None
    /\ UNCHANGED <<self_n_points, self_yc, self_idx, self_f_opt,
                   self_warm_start, pc, locals, solver, result, probe, runs,
                   config, calc>>

\* _update_poisoned_clf when the fit of line 317 raises: the fingerprint
\* (line 308) and the copy (309) were stored before the fit was tried, and
\* the copy has not been fitted on the augmented set.
update_poisoned_clf_fit_raises(objs, X, Y, hash, cached, clf, tr) ==
    LET xc_hash_is_valid == clf = None /\ tr = None
        clf1 == objs[IF clf = None THEN "surrogate_classifier"
                     ELSE Get(clf).base]
        tr0 == objs[IF tr = None THEN "surrogate_data" ELSE Get(tr).base]
        tr1 == append(tr0, CDataset(X, Y))
        xc_hash == sha1(X)
    IN  [X |-> X,
         hash |-> stored_hash(xc_hash, xc_hash_is_valid),
         cached |-> Some(deepcopy(clf1)),
         clf |-> deepcopy(clf1),
         tr |-> tr1,
         fits |-> 0,
         objects |-> objs]

\* A cache access whose fit raises (the access is one that retrains).
CacheAccessFitRaises(clf, tr, w) ==
    /\ pc = "idle"
    /\ self_xc # None
    /\ LET X == IF w = None THEN Get(self_xc)
                ELSE [Get(self_xc) EXCEPT ![Get(w)[1] + 1] = Get(w)[2]]
           u == update_poisoned_clf_fit_raises(objects, X, Get(self_yc),
                    self_xc_hash, self_poisoned_clf, clf, tr)
       IN  /\ must_retrain(self_xc_hash, sha1(X))
           /\ self_xc' = Some(X)
           /\ self_xc_hash' = u.hash
           /\ self_poisoned_clf' = u.cached
           /\ objects' = u.objects
           /\ acc' = Access(acc, self_xc_hash, self_poisoned_clf, clf, tr, u)
    /\ raised' = Some("FitError")
    /\ arg' = None
    /\ UNCHANGED <<self_n_points, self_yc, self_idx, self_f_opt,
                   self_warm_start, pc, locals, solver, result, probe, runs,
                   config, calc>>

\* ----------------------------------------------- single-point routine ----
\* A _run that always maximizes.
solver_call_maximize(y_target) == "maximize"

\* The method of the optimizer _run calls: "indiscriminate attack" /
\* "targeted attack".
solver_call(y_target) ==
    IF y_target = None THEN "maximize" ELSE "minimize"

\* An _init_solver that leaves the warm start as it is.
init_solver_keeps_warm_start(warm) == warm

\* The last line of _init_solver: self._warm_start = None.
init_solver_warm_start(warm) == None

\* _run(xc, yc, idx) up to the call of the optimizer: the fields are loaded
\* and _init_solver creates the optimizer, which is called once, seeded at
\* row idx.
enter_run(X, Y, idx) ==
    /\ self_xc' = Some(X)
    /\ self_yc' = Some(Y)
    /\ self_idx' = Some(idx)
    /\ solver' = Some([x0 |-> X[idx + 1], x_opt |-> X[idx + 1], evals |-> 0,
                       call |-> solver_call(self_y_target), solves |-> 0])
    /\ self_warm_start' = init_solver_warm_start(self_warm_start)

\* _run called on its own (as a subclass or a test does).
call_run(X, Y, idx) ==
    /\ pc = "idle"
    /\ enter_run(X, Y, idx)
    /\ pc' = "solve"
    /\ raised' = None
    /\ arg' = None
    /\ UNCHANGED <<self_n_points, self_xc_hash, self_poisoned_clf,
                   self_f_opt, locals, result, acc, probe, runs, config, calc,
                   objects>>

\* xc.atleast_2d().shape[0]: a callback argument is a sequence of samples.
n_samples(a) == Len(a)

\* A test that lets two samples through.
is_single_sample_or_pair(a) == ~(n_samples(a) > 2)

\* The test that precedes "xc is not a single sample!".
is_single_sample(a) == ~(n_samples(a) > 1)

\* The arguments of a callback: one sample, or up to MaxSamples of them.
Args == UNION {[1..m -> Vals] : m \in 1..MaxSamples}

\* One callback of the optimizer on the argument a.  The first evaluation is
\* at the seed x0.  An argument of several samples raises TypeError before
\* anything is written; without a validation set the callback raises
\* AttributeError (self.val.Y, self.val.X) after the cache access.  An
\* exception ends the optimizer call and _run.
Callback(a, keep) ==
    /\ pc = "solve"
    /\ Get(solver).evals < MaxEvals
    /\ Get(solver).evals = 0 => a = <<Get(solver).x0>>
    /\ arg' = Some(a)
    /\ IF ~is_single_sample(a)
       THEN /\ raised' = Some("TypeError")
            /\ pc' = "idle"
            /\ solver' = None
            /\ UNCHANGED <<self_xc, self_xc_hash, self_poisoned_clf, acc,
                           objects>>
       ELSE LET u == evaluate(objects, Get(self_xc), Get(self_yc), self_idx,
                              self_xc_hash, self_poisoned_clf, a[1])
            IN  /\ self_xc' = Some(u.X)
                /\ self_xc_hash' = u.hash
                /\ self_poisoned_clf' = u.cached
                /\ objects' = u.objects
                /\ acc' = Access(acc, self_xc_hash, self_poisoned_clf,
                                 None, None, u)
                /\ IF self_val = None
                   THEN /\ raised' = Some("AttributeError")
                        /\ pc' = "idle"
                        /\ solver' = None
                   ELSE /\ raised' = None
                        /\ pc' = "solve"
                        /\ solver' = Some([Get(solver) EXCEPT
                                !.evals = @ + 1,
                                !.x_opt = IF keep THEN a[1] ELSE @])
    /\ UNCHANGED <<self_n_points, self_yc, self_idx, self_f_opt,
                   self_warm_start, locals, result, probe, runs, config, calc>>

\* The optimizer evaluates the objective at a and may keep it as its best.
objective_function(a, keep) == Callback(a, keep)

\* The optimizer evaluates the gradient at a.
objective_function_gradient(a) == Callback(a, FALSE)

\* The optimizer returns its best point and _run returns it.
return_run ==
    /\ pc = "solve"
    /\ Get(solver).evals >= 1
    /\ self_f_opt' = Some(runs)
    /\ solver' = None
    /\ pc' = "idle"
    /\ arg' = None
    /\ UNCHANGED <<self_n_points, self_xc, self_yc, self_idx, self_xc_hash,
                   self_poisoned_clf, self_warm_start, locals, result, acc,
                   probe, runs, config, calc, raised, objects>>

\* n_points setter.
set_n_points(value) ==
    /\ pc = "idle"
    /\ self_n_points' = value
    /\ raised' = None
    /\ UNCHANGED <<fields, pc, locals, solver, result, acc, probe, runs,
                   config, calc, arg, objects>>

\* ------------------------------------------------------------------ run --
\* A flip that takes the first label drawn, whatever the true label.
flip_label_first(y, labels) == labels[1]

\* Label flip of _rnd_init_poisoning_points: labels is the pair drawn by
\* randsample(num_classes, 2) for the sample whose true label is y.
flip_label(y, labels) == IF y = labels[1] THEN labels[2] ELSE labels[1]
LabelPairs == {p \in Labels \X Labels : p[1] # p[2]}

\* _rnd_init_poisoning_points(): X are the perturbed features of the drawn
\* samples, Y their true labels, L the pair drawn for each of them.  The
\* value is the pair (xc, yc) returned; y_true keeps Y for the probes.
rnd_init_poisoning_points(X, Y, L) ==
    [xc |-> X, yc |-> [j \in DOMAIN Y |-> flip_label(Y[j], L[j])],
     y_true |-> Y]

\* Every value _rnd_init_poisoning_points() can return for n points.
InitDraws(n) ==
    {rnd_init_poisoning_points(X, Y, L) :
        X \in Matrices(n), Y \in LabelVecs(n), L \in [1..n -> LabelPairs]}

\* Warm start of run: the first ds_init.num_samples rows are overwritten.
overwrite(v, w) == [j \in DOMAIN v |-> IF j <= Len(w) THEN w[j] ELSE v[j]]

\* The ds_init arguments of run: None, or a dataset of at most MaxWarm
\* samples (and, when n points are initialized, of at most n).
DsInits(n) == {None} \cup
    UNION {{Some(CDataset(X, Y)) : X \in Matrices(m), Y \in LabelVecs(m)} :
           m \in 1..(IF 0 < n /\ n < MaxWarm THEN n ELSE MaxWarm)}

\* An early-return test that forgets n_points = 0.
is_early_exit_unset_only(n) == n = None

\* The early-return test of run.
is_early_exit(n) == n = None \/ n = Some(0)

\* max_iter taken as given.
effective_max_iter_unforced(n, m) == m

\* "max_iter ignored for single-point attacks".
effective_max_iter(n, m) == IF n = 1 THEN 1 ELSE m

\* The points taken first to last.
point_index_forward(n, j) == j

\* "this is to optimize the last points first".
point_index(n, j) == n - j - 1

Returned(kind, clf, ds, f_opt, p) ==
    [kind |-> kind, clf |-> clf, ds |-> ds, f_opt |-> f_opt, probe |-> p]

\* A dispatch that takes every strategy it has no name for as 'random'.
init_type_error_named_only(init_type) ==
    IF init_type = "loss_based" THEN Some("NotImplementedError") ELSE None

\* The exception the dispatch on init_type ends with, None if the points
\* are drawn by _rnd_init_poisoning_points.
init_type_error(init_type) ==
    IF init_type = "random" THEN None ELSE Some("NotImplementedError")

\* run, up to the first test of the while loop (or to the early return, or
\* to the exception that ends it); r is what _rnd_init_poisoning_points()
\* returns.
run(max_iter_arg, ds_init, r) ==
    /\ pc = "idle"
    /\ runs < MaxRuns
    /\ runs' = runs + 1
    /\ arg' = None
    /\ LET p0 == [NoProbe EXCEPT !.n = self_n_points,
                                  !.max_iter = max_iter_arg,
                                  !.ds_init = ds_init]
       IN
       IF is_early_exit(self_n_points)
       THEN \* evaluate performance on x, y
            /\ result' = Some(Returned("early", Some(objects.classifier),
                                        ds_init, Some(0), p0))
            /\ raised' = None
            /\ UNCHANGED <<self_n_points, fields, pc, locals, solver, acc,
                           probe, config, calc, objects>>
       ELSE IF init_type_error(Get(self_init_type)) # None
       THEN /\ result' = Some(Returned("error", None, None, None, p0))
            /\ raised' = init_type_error(Get(self_init_type))
            /\ UNCHANGED <<self_n_points, fields, pc, locals, solver, acc,
                           probe, config, calc, objects>>
       ELSE LET p1 == [p0 EXCEPT !.init_calls = 1] IN
            IF Get(self_n_points) < 0
            THEN \* randsample of a negative size: the call raises
                 /\ result' = Some(Returned("error", None, None, None, p1))
                 /\ raised' = Some("Error")
                 /\ UNCHANGED <<self_n_points, fields, pc, locals, solver,
                                acc, probe, config, calc, objects>>
            ELSE /\ xc' = IF ds_init = None THEN r.xc
                          ELSE overwrite(r.xc, Get(ds_init).X)
                 /\ yc' = IF ds_init = None THEN r.yc
                          ELSE overwrite(r.yc, Get(ds_init).Y)
                 /\ delta' = 1
                 /\ k' = 0
                 /\ max_iter' = effective_max_iter(Get(self_n_points),
                                                   max_iter_arg)
                 /\ pc' = "while"
                 /\ probe' = [p1 EXCEPT !.y_true = r.y_true,
                                        !.yc_init = r.yc,
                                        !.yc_start = yc']
                 /\ result' = None
                 /\ raised' = None
                 /\ UNCHANGED <<self_n_points, fields, xc_prv, i, solver,
                                acc, config, calc, objects>>

\* The test of the while loop, and the first lines of a round.
while_test ==
    /\ pc = "while"
    /\ IF delta > 0 /\ k < max_iter
       THEN /\ xc_prv' = xc
            /\ i' = 0
            /\ pc' = "for"
            /\ probe' = [probe EXCEPT !.rounds = @ + 1, !.order = <<>>]
       ELSE /\ pc' = "final"
            /\ UNCHANGED <<xc_prv, i, probe>>
    /\ UNCHANGED <<self_n_points, fields, xc, yc, delta, k, max_iter,
                   solver, result, acc, runs, config, calc, raised, arg,
                   objects>>

\* The callbacks of one optimizer call, E the points it evaluates in turn;
\* s carries the fields and the probes through them.
RECURSIVE Callbacks(_, _)
Callbacks(s, E) ==
    IF E = <<>> THEN s
    ELSE LET u == evaluate(s.objects, s.X, s.Y, s.idx, s.hash, s.cached,
                           Head(E))
         IN  Callbacks([s EXCEPT !.X = u.X, !.hash = u.hash,
                                 !.cached = u.cached,
                                 !.objects = u.objects,
                                 !.acc = Access(s.acc, s.hash, s.cached,
                                                None, None, u),
                                 !.fits = @ + u.fits],
                       Tail(E))

\* What the optimizer may do when seeded at x0: the points it evaluates
\* (the first is x0) and the point it returns (x0 or one it evaluated).
Evaluations(x0) ==
    {E \in UNION {[1..m -> Vals] : m \in 1..MaxEvals} : E[1] = x0}
Points(E) == {E[j] : j \in DOMAIN E}

\* One iteration of the for loop: _run(xc, yc, idx) with the callbacks E
\* of the optimizer and the point x it returns, then the row update.
\* Without a validation set the first callback raises AttributeError after
\* its cache access, which ends run.
run_point(E, x) ==
    /\ pc = "for"
    /\ i < Get(self_n_points)
    /\ E \in Evaluations(xc[point_index(Get(self_n_points), i) + 1])
    /\ x \in Points(E)
    /\ self_val = None => Len(E) = 1
    /\ LET idx == point_index(Get(self_n_points), i)
           s == Callbacks([X |-> xc, Y |-> yc, idx |-> Some(idx),
                           hash |-> self_xc_hash,
                           cached |-> self_poisoned_clf,
                           acc |-> acc, fits |-> 0, objects |-> objects],
                          E)
           p == [probe EXCEPT !.opt_calls = @ + 1,
                              !.order = Append(@, idx),
                              !.fits = @ + s.fits]
       IN  /\ self_xc' = Some(s.X)
           /\ self_yc' = Some(yc)
           /\ self_idx' = Some(idx)
           /\ self_warm_start' = None
           /\ self_xc_hash' = s.hash
           /\ self_poisoned_clf' = s.cached
           /\ acc' = s.acc
           /\ objects' = s.objects
           /\ IF self_val = None
              THEN /\ raised' = Some("AttributeError")
                   /\ result' = Some(Returned("error", None, None, None, p))
                   /\ pc' = "idle"
                   /\ xc' = <<>>
                   /\ yc' = <<>>
                   /\ xc_prv' = <<>>
                   /\ delta' = 0
                   /\ k' = 0
                   /\ max_iter' = 0
                   /\ i' = 0
                   /\ probe' = NoProbe
                   /\ UNCHANGED self_f_opt
              ELSE /\ self_f_opt' = Some(runs)
                   /\ xc' = [xc EXCEPT ![idx + 1] = x]
                   /\ probe' = p
                   /\ i' = i + 1
                   /\ UNCHANGED <<pc, yc, xc_prv, delta, k, max_iter,
                                  result, raised>>
    /\ UNCHANGED <<self_n_points, solver, runs, config, calc, arg>>

\* The end of a round: the for loop is exhausted.
round_end ==
    /\ pc = "for"
    /\ i >= Get(self_n_points)
    /\ delta' = norm_2d_sq(xc_prv, xc)
    /\ k' = k + 1
    /\ pc' = "while"
    /\ UNCHANGED <<self_n_points, fields, xc, yc, xc_prv, max_iter, i,
                   solver, result, acc, probe, runs, config, calc, raised, arg,
                   objects>>

\* The last step of run: the targeted classifier is evaluated.
finalize ==
    /\ pc = "final"
    /\ IF self_xc = None
       THEN \* CDataset(None, None), None.sha1(): the call raises
            /\ result' = Some(Returned("error", None, None, None, probe))
            /\ raised' = Some("Error")
            /\ UNCHANGED <<self_xc_hash, self_poisoned_clf, acc, objects>>
       ELSE LET u == update_poisoned_clf(objects, Get(self_xc),
                        Get(self_yc), self_xc_hash, self_poisoned_clf,
                        Some(classifier), Some(training_data))
            IN  /\ self_xc_hash' = u.hash
                /\ self_poisoned_clf' = u.cached
                /\ objects' = u.objects
                /\ acc' = Access(acc, self_xc_hash, self_poisoned_clf,
                                 Some(classifier), Some(training_data), u)
                /\ result' = Some(Returned("poisoned", Some(u.clf),
                        Some(CDataset(xc, yc)), self_f_opt,
                        [probe EXCEPT !.fits = @ + u.fits]))
                /\ raised' = None
    /\ pc' = "idle"
    /\ xc' = <<>>
    /\ yc' = <<>>
    /\ xc_prv' = <<>>
    /\ delta' = 0
    /\ k' = 0
    /\ max_iter' = 0
    /\ i' = 0
    /\ probe' = NoProbe
    /\ UNCHANGED <<self_n_points, self_xc, self_yc, self_idx, self_f_opt,
                   self_warm_start, solver, runs, config, calc, arg>>

\* ------------------------------------------------- gradient arithmetic --
\* The gradient routines are computed in exact arithmetic.  A number is a
\* fraction <<n, d>> in lowest terms with d > 0; <<0, 0>> is a value that is
\* not finite (the inf or nan a division by zero leaves).  A vector is a
\* sequence of fractions; a matrix of integers is a sequence of rows.
Abs(x) == IF x < 0 THEN -x ELSE x

RECURSIVE GCD(_, _)
GCD(a, b) == IF b = 0 THEN a ELSE GCD(b, a % b)

NotFinite == <<0, 0>>
IsFinite(a) == a[2] # 0
F(n) == <<n, 1>>
Frac(n, d) ==
    IF d = 0 THEN NotFinite
    ELSE LET g == GCD(Abs(n), Abs(d))
             sg == IF d < 0 THEN -1 ELSE 1
         IN  <<(sg * n) \div g, (sg * d) \div g>>
FAdd(a, b) == IF IsFinite(a) /\ IsFinite(b)
              THEN LET g == GCD(a[2], b[2])
                   IN  Frac(a[1] * (b[2] \div g) + b[1] * (a[2] \div g),
                            (a[2] \div g) * b[2])
              ELSE NotFinite
FNeg(a) == IF IsFinite(a) THEN <<-a[1], a[2]>> ELSE NotFinite
FSub(a, b) == FAdd(a, FNeg(b))
FMul(a, b) == IF IsFinite(a) /\ IsFinite(b)
              THEN LET g == GCD(Abs(a[1]), b[2])
                       h == GCD(Abs(b[1]), a[2])
                   IN  Frac((a[1] \div g) * (b[1] \div h),
                            (a[2] \div h) * (b[2] \div g))
              ELSE NotFinite
FDiv(a, b) == IF IsFinite(a) /\ IsFinite(b)
              THEN IF b[1] = 0 THEN NotFinite
                   ELSE FMul(a, Frac(b[2], b[1]))
              ELSE NotFinite

FVec(v) == [j \in DOMAIN v |-> F(v[j])]
FMat(M) == [r \in DOMAIN M |-> FVec(M[r])]
Zeros(n) == [j \in 1..n |-> F(0)]
AllFinite(v) == \A j \in DOMAIN v : IsFinite(v[j])
IsZero(v) == \A j \in DOMAIN v : v[j] = F(0)

RECURSIVE DotUpTo(_, _, _)
DotUpTo(u, v, j) ==
    IF j = 0 THEN F(0) ELSE FAdd(FMul(u[j], v[j]), DotUpTo(u, v, j - 1))
\* u.dot(v) of two vectors.
Dot(u, v) == DotUpTo(u, v, Len(u))
\* M.dot(v) of a matrix and a vector, as an array of computed entries.
MatVec(M, v) == SubSeq([r \in DOMAIN M |-> Dot(M[r], v)], 1, Len(M))
\* a * x + y of two vectors, as an array of computed entries.
Axpy(a, x, y) ==
    SubSeq([j \in DOMAIN x |-> FAdd(FMul(a, x[j]), y[j])], 1, Len(x))

\* linalg.det of a symmetric matrix of integers of dimension 1 or 2.
Det(H) == IF Len(H) = 1 THEN H[1][1]
          ELSE H[1][1] * H[2][2] - H[1][2] * H[2][1]

\* linalg.inv(H), det(H) # 0.
Inv(H) ==
    IF Len(H) = 1 THEN <<<<Frac(1, H[1][1])>>>>
    ELSE <<<<Frac(H[2][2], Det(H)), Frac(-H[1][2], Det(H))>>,
           <<Frac(-H[2][1], Det(H)), Frac(H[1][1], Det(H))>>>>

\* linalg.pinv2(H) of a singular symmetric H: H is 0, or of rank 1 with
\* the one eigenvalue trace(H), and then its pseudo-inverse is H / trace^2.
Pinv2(H) ==
    LET tr == IF Len(H) = 1 THEN H[1][1] ELSE H[1][1] + H[2][2]
    IN  [r \in DOMAIN H |-> [c \in DOMAIN H |->
            IF tr = 0 THEN F(0) ELSE Frac(H[r][c], tr * tr)]]

\* Is H positive definite (does its Cholesky factorization exist)?
IsPosDef(H) == H[1][1] > 0 /\ Det(H) > 0

\* The value of a gradient routine: the exception it raised or the
\* gradient it returned.
Raises(e) == [raised |-> Some(e), gt |-> None]
Returns(gt) == [raised |-> None, gt |-> Some(gt)]

\* -G.dot(v) for the one-row matrix G.
MinusGDot(G, v) == <<FNeg(Dot(FVec(G[1]), v))>>

\* _compute_grad_inv(G, H, grad_loss_params): the inverse, or the
\* pseudo-inverse when abs(det) < 1e-6 (for integers: det = 0).
compute_grad_inv(G, H, grad_loss_params) ==
    LET H_inv == IF Det(H) = 0 THEN Pinv2(H) ELSE Inv(H)
    IN  Returns(MinusGDot(G, MatVec(H_inv, FVec(grad_loss_params))))

\* linalg.solve(..., sym_pos=True) factorizes H by Cholesky and raises
\* LinAlgError when H is not positive definite.
sym_pos_solvable(H) == IsPosDef(H)

\* _compute_grad_solve(G, H, grad_loss_params, sym_pos=True).
compute_grad_solve(G, H, grad_loss_params) ==
    IF ~sym_pos_solvable(H) \/ Det(H) = 0 THEN Raises("LinAlgError")
    ELSE Returns(MinusGDot(G, MatVec(Inv(H), FVec(grad_loss_params))))

\* One iteration of linalg.cg from st = [x, r, p, rho], the iterate, its
\* residual, the search direction and rho = r.r: q = H p,
\* alpha = rho / p.q, x1 = x + alpha p, r1 = r - alpha q, rho1 = r1.r1,
\* p1 = r1 + (rho1 / rho) p.
cg_iteration(H, st) ==
    LET q == MatVec(FMat(H), st.p)
        alpha == FDiv(st.rho, Dot(st.p, q))
        x1 == Axpy(alpha, st.p, st.x)
        r1 == Axpy(FNeg(alpha), q, st.r)
        rho1 == Dot(r1, r1)
    IN  [x |-> x1, r |-> r1, p |-> Axpy(FDiv(rho1, st.rho), st.p, r1),
         rho |-> rho1]

\* linalg.cg: the iterations from st, after it iterations.  With the
\* entries of the bounds a residual is 0 or far above tol * |b|, so the
\* stopping test is r = 0.  info = 0 says converged; an iterate that is
\* not finite stays so up to the last iteration.
RECURSIVE cg_loop(_, _, _)
cg_loop(H, st, it) ==
    IF ~AllFinite(st.x)
    THEN [v |-> [j \in DOMAIN st.x |-> NotFinite], info |-> 10 * Len(H)]
    ELSE IF IsZero(st.r) THEN [v |-> st.x, info |-> 0]
    ELSE IF it >= 10 * Len(H) THEN [v |-> st.x, info |-> it]
    ELSE cg_loop(H, cg_iteration(H, st), it + 1)

\* The first residual r = b - H x0 and the iterations from it.
cg_start(H, x0, r) ==
    cg_loop(H, [x |-> x0, r |-> r, p |-> r, rho |-> Dot(r, r)], 0)

\* linalg.cg(H, b, tol=tol, x0=x0), x0 of the dimension of H.
cg(H, b, x0) ==
    cg_start(H, x0, Axpy(F(-1), MatVec(FMat(H), x0), FVec(b)))

\* The end of _compute_grad_solve_iterative on the value c of linalg.cg:
\* v is stored as the warm start and gt = -G.dot(v.T) is returned.
iterative_result(G, c) ==
    [out |-> Returns(MinusGDot(G, c.v)), warm |-> Some(c.v), info |-> c.info]

\* _compute_grad_solve_iterative(G, H, grad_loss_params) with the stored
\* warm start warm: the value and the warm start it leaves.  linalg.cg
\* raises ValueError for an x0 that has not the dimension of H.
compute_grad_solve_iterative(G, H, grad_loss_params, warm) ==
    IF warm # None /\ Len(Get(warm)) # Len(H)
    THEN [out |-> Raises("ValueError"), warm |-> warm, info |-> 0]
    ELSE iterative_result(G, cg(H, grad_loss_params,
             IF warm = None THEN Zeros(Len(H)) ELSE Get(warm)))

\* The square of a norm that is the largest component.
norm_inf_sq(grad) ==
    LET m == CHOOSE j \in DOMAIN grad :
                 \A l \in DOMAIN grad : Abs(grad[l]) <= Abs(grad[j])
    IN  grad[m] * grad[m]

\* The square of grad.norm() for a vector of integers.
norm_sq(grad) == Dot(FVec(grad), FVec(grad))[1]

\* The last lines of _objective_function_gradient: the value returned for
\* the raw gradient grad.  [grad, by_sq] stands for the vector grad / norm
\* with norm * norm = by_sq; by_sq = 1 with divided false is grad itself.
normalized(grad, normalization) ==
    IF normalization /\ norm_sq(grad) > 0
    THEN [grad |-> grad, by_sq |-> norm_sq(grad), divided |-> TRUE]
    ELSE [grad |-> grad, by_sq |-> 1, divided |-> FALSE]

\* The gradient routines called on their own (as a subclass or a test
\* does), on the inputs calc holds.
call_compute_grad_inv ==
    /\ calc.kind = "hyper"
    /\ \E out \in {compute_grad_inv(calc.G, calc.H,
                         calc.grad_loss_params)} :
           /\ calc' = [calc EXCEPT !.inv = Some(out)]
           /\ raised' = out.raised
    /\ UNCHANGED <<self_n_points, fields, pc, locals, solver, result, acc,
                   probe, runs, config, arg, objects>>

call_compute_grad_solve ==
    /\ calc.kind = "hyper"
    /\ \E out \in {compute_grad_solve(calc.G, calc.H,
                         calc.grad_loss_params)} :
           /\ calc' = [calc EXCEPT !.solve = Some(out)]
           /\ raised' = out.raised
    /\ UNCHANGED <<self_n_points, fields, pc, locals, solver, result, acc,
                   probe, runs, config, arg, objects>>

call_compute_grad_solve_iterative ==
    /\ calc.kind = "hyper"
    /\ \E c \in {compute_grad_solve_iterative(calc.G, calc.H,
                    calc.grad_loss_params, self_warm_start)} :
           /\ calc' = [calc EXCEPT !.iter = Some(c.out),
                                 !.seed = self_warm_start]
           /\ raised' = c.out.raised
           /\ self_warm_start' = c.warm
    /\ UNCHANGED <<self_n_points, self_xc, self_yc, self_idx, self_xc_hash,
                   self_poisoned_clf, self_f_opt, pc, locals, solver, result,
                   acc, probe, runs, config, arg, objects>>

\* The end of _objective_function_gradient on the raw gradient calc holds.
normalize_gradient ==
    /\ calc.kind = "norm"
    /\ calc' = [calc EXCEPT
                  !.ret = Some(normalized(calc.grad, calc.normalization))]
    /\ raised' = None
    /\ UNCHANGED <<self_n_points, fields, pc, locals, solver, result, acc,
                   probe, runs, config, arg, objects>>

\* ------------------------------------------------ SVM gradient provider --
\* c_classifier_gradient_svm.py.  A fitted SVM is its dual coefficients
\* alpha (one per support vector, in units of tol), its support vectors sv
\* (one feature each), its bound C and whether a preprocess is attached.
Tol == 1

\* kernel.k on two samples (a linear kernel).
kernel_k(a, b) == a * b

\* clf.preprocess.normalize on the rows of x (a reflection of the range).
normalize(x) == [j \in DOMAIN x |-> MaxVal - x[j]]

\* A margin test with strict bounds.
is_margin_strict(clf, j) ==
    Abs(clf.alpha[j]) > Tol /\ Abs(clf.alpha[j]) < clf.C - Tol

\* The test of _s on the dual coefficient of support vector j.
is_margin(clf, j) ==
    Abs(clf.alpha[j]) >= Tol /\ Abs(clf.alpha[j]) <= clf.C - Tol

\* _s(clf): the indices alpha.find returns, in increasing order.
s_indices(clf) ==
    LET test(j) == is_margin(clf, j)
    IN  SelectSeq([j \in DOMAIN clf.alpha |-> j], test)

\* _xs(clf): None without margin support vectors, else (xs, s).
xs_of(clf) ==
    LET s == s_indices(clf)
    IN  IF Len(s) = 0 THEN None
        ELSE Some([xs |-> [j \in DOMAIN s |-> clf.sv[s[j]]], s |-> s])

\* A call self._xs(...) with the positional arguments args: the method
\* takes one, clf; any other number of them raises TypeError.
call_xs(args) ==
    IF Len(args) = 1 THEN Returns(xs_of(args[1])) ELSE Raises("TypeError")

\* hessian(clf).  Unpacking the None that _xs returns raises TypeError.
hessian(clf) ==
    LET r == call_xs(<<clf>>)
    IN  IF Get(r.gt) = None THEN Raises("TypeError")
        ELSE LET xs == Get(Get(r.gt)).xs
                 s == Len(xs)
             IN  Returns([a \in 1..(s + 1) |-> [b \in 1..(s + 1) |->
                     IF a <= s /\ b <= s THEN kernel_k(xs[a], xs[b])
                     ELSE IF a = s + 1 /\ b = s + 1 THEN 0
                     ELSE 1]])

\* fd_params(x, clf).  It calls self._xs() without clf.
fd_params(x, clf) ==
    LET r == call_xs(<<>>)
    IN  IF r.raised # None THEN Raises(Get(r.raised))
        ELSE IF Get(r.gt) = None THEN Returns(None)
        ELSE LET xs == Get(Get(r.gt)).xs
                 x1 == IF clf.preprocess THEN normalize(x) ELSE x
                 s == Len(xs)
             IN  Returns(Some([a \in DOMAIN x1 |-> [b \in 1..(s + 1) |->
                     IF b <= s THEN kernel_k(x1[a], xs[b]) ELSE 1]]))

\* The provider called on the fitted classifier and the query points calc
\* holds.
call_hessian ==
    /\ calc.kind = "svm"
    /\ \E out \in {hessian(calc.clf)} :
           /\ calc' = [calc EXCEPT !.hessian = Some(out)]
           /\ raised' = out.raised
    /\ UNCHANGED <<self_n_points, fields, pc, locals, solver, result, acc,
                   probe, runs, config, arg, objects>>

call_fd_params ==
    /\ calc.kind = "svm"
    /\ \E out \in {fd_params(calc.x, calc.clf)} :
           /\ calc' = [calc EXCEPT !.fd_params = Some(out)]
           /\ raised' = out.raised
    /\ UNCHANGED <<self_n_points, fields, pc, locals, solver, result, acc,
                   probe, runs, config, arg, objects>>

\* ------------------------------------ hypergradient inside a callback ----
\* The hypergradient of an attack on an SVM that solves iteratively, on
\* the hessian value h of the classifier just retrained: the system is
\* solved for the first unit vector, with a row of ones for G.  dim is the
\* dimension of H, None when hessian raised.
hypergradient_solve(H, warm) ==
    [solve |-> compute_grad_solve_iterative(<<[j \in DOMAIN H |-> 1]>>, H,
                   [j \in DOMAIN H |-> IF j = 1 THEN 1 ELSE 0], warm),
     dim |-> Some(Len(H))]

hypergradient_iterative(h, warm) ==
    IF h.raised # None
    THEN [solve |-> [out |-> h, warm |-> warm, info |-> 0], dim |-> None]
    ELSE hypergradient_solve(Get(h.gt), warm)

\* _objective_function_gradient(a) for a single sample a on an attack with
\* a validation set, the retrained classifier being svm: the row write and
\* the cache access, then the hypergradient.  An exception of the
\* hypergradient ends the optimizer call and _run.  calc records the solve:
\* the dimension of H, whether it was seeded with a warm start, whether a
\* solve before it had stored one, its value and convergence info.
objective_function_gradient_svm(a, svm) ==
    /\ pc = "solve"
    /\ Get(solver).evals < MaxEvals
    /\ Get(solver).evals = 0 => a = <<Get(solver).x0>>
    /\ is_single_sample(a)
    /\ self_val # None
    /\ arg' = Some(a)
    /\ LET u == evaluate(objects, Get(self_xc), Get(self_yc), self_idx,
                         self_xc_hash, self_poisoned_clf, a[1])
       IN  /\ self_xc' = Some(u.X)
           /\ self_xc_hash' = u.hash
           /\ self_poisoned_clf' = u.cached
           /\ objects' = u.objects
           /\ acc' = Access(acc, self_xc_hash, self_poisoned_clf,
                            None, None, u)
    /\ \E g \in {hypergradient_iterative(hessian(svm), self_warm_start)} :
          /\ calc' = IF g.dim = None THEN NoCalc
                     ELSE [kind |-> "iter", dim |-> Get(g.dim),
                           seeded |-> self_warm_start # None,
                           before |-> calc.kind = "iter"
                                      /\ calc.out.raised = None,
                           out |-> g.solve.out, info |-> g.solve.info]
          /\ self_warm_start' = g.solve.warm
          /\ raised' = g.solve.out.raised
          /\ IF g.solve.out.raised # None
             THEN pc' = "idle" /\ solver' = None
             ELSE /\ pc' = "solve"
                  /\ solver' = Some([Get(solver) EXCEPT !.evals = @ + 1,
                                                        !.solves = @ + 1])
    /\ UNCHANGED <<self_n_points, self_yc, self_idx, self_f_opt, locals,
                   result, probe, runs, config>>

\* ---------------------------------------------------- configuration ------
\* settings.py.  A path is the sequence of its components; the environment
\* maps a variable name to None (not set) or Some(path); files is the set
\* of the paths that are existing files.
SECML_CONFIG_FNAME == "secml-lib.conf"
cwd == <<"cwd">>
SECML_HOME_DIR == <<"home", "secml-lib-data">>
install_dir == <<"install", "secml">>

\* fm.join(path, name).
join(path, name) == Append(path, name)

\* fm.file_exist(fname).
file_exist(files, fname) == fname \in files

\* The key _config_fpath looks up in os.environ.
config_env_key == "$SECML_CONFIG"

\* gen_candidates(): the paths tried, in the order they are yielded.
gen_candidates(env) ==
    <<join(cwd, SECML_CONFIG_FNAME)>>
    \o (IF env[config_env_key] = None THEN <<>>
        ELSE <<Get(env[config_env_key]),
               join(Get(env[config_env_key]), "SECML_CONFIG_FNAME")>>)
    \o <<join(SECML_HOME_DIR, SECML_CONFIG_FNAME),
         join(install_dir, SECML_CONFIG_FNAME)>>

\* _config_fpath(): the candidates that are existing files.
config_fpath(env, files) ==
    LET exists(fname) == file_exist(files, fname)
    IN  SelectSeq(gen_candidates(env), exists)

\* The module is loaded (SECML_CONFIG = _config_fpath()) in the environment
\* and on the files calc holds.
call_config_fpath ==
    /\ calc.kind = "config"
    /\ calc.ret = None
    /\ calc' = [calc EXCEPT !.ret = Some(config_fpath(calc.env, calc.files))]
    /\ raised' = None
    /\ UNCHANGED <<self_n_points, fields, pc, locals, solver, result, acc,
                   probe, runs, config, arg, objects>>

\* ------------------------------------------------------- specifications --
NPointsValues == {None} \cup {Some(n) : n \in -1..MaxPoints}
Overrides == {<<None, None>>, <<Some(classifier), None>>,
              <<None, Some(training_data)>>,
              <<Some(classifier), Some(training_data)>>}
Writes == {None} \cup
    {Some(<<j, x>>) : j \in 0..(MaxPoints - 1), x \in Vals}
NOf(v) == IF v = None \/ Get(v) < 0 THEN 0 ELSE Get(v)

\* The attack driven through run.
Next ==
    \/ pc = "idle" /\ \E value \in NPointsValues : set_n_points(value)
    \/ /\ pc = "idle" /\ runs < MaxRuns
       /\ \E m \in 0..MaxIter, ds_init \in DsInits(NOf(self_n_points)),
             r \in InitDraws(NOf(self_n_points)) : run(m, ds_init, r)
    \/ while_test
    \/ /\ pc = "for" /\ i < Get(self_n_points)
       /\ \E x0 \in Vals : \E E \in Evaluations(x0), x \in Vals :
             run_point(E, x)
    \/ round_end
    \/ finalize

\* The target label and the loss enter only the value of the objective,
\* which run never looks at: run is explored for an indiscriminate attack on
\* an SVM (and for the constructions that fail).
InitRun ==
    /\ Init
    /\ self_y_target = None
    /\ ctor.class_type \in {"svm", "other"}

Spec == InitRun /\ [][Next]_vars

\* The attack driven through _run, the callbacks and the cache.
NextPoint ==
    \/ /\ pc = "idle"
       /\ \E n \in 1..MaxPoints :
             \E X \in Matrices(n), Y \in LabelVecs(n), idx \in 0..(n - 1) :
                call_run(X, Y, idx)
    \/ pc = "solve" /\ \E a \in Args, keep \in BOOLEAN :
                           objective_function(a, keep)
    \/ pc = "solve" /\ \E a \in Args : objective_function_gradient(a)
    \/ return_run
    \/ /\ pc = "idle" /\ self_xc # None
       /\ \E o \in Overrides, w \in Writes :
             /\ w # None => Get(w)[1] < Len(Get(self_xc))
             /\ CacheAccess(o[1], o[2], w)

\* init_type is read by run only: _run is explored for the default one.
InitPoint ==
    /\ Init
    /\ self_init_type \in {None, Some("random")}

SpecPoint == InitPoint /\ [][NextPoint]_vars

\* The cache driven by a caller whose fits may raise, on a built attack.
NextFit ==
    \/ /\ pc = "idle"
       /\ \E n \in 1..MaxPoints :
             \E X \in Matrices(n), Y \in LabelVecs(n), idx \in 0..(n - 1) :
                call_run(X, Y, idx)
    \/ pc = "solve" /\ \E a \in Args, keep \in BOOLEAN :
                           objective_function(a, keep)
    \/ return_run
    \/ /\ pc = "idle" /\ self_xc # None
       /\ \E o \in Overrides, w \in Writes :
             /\ w # None => Get(w)[1] < Len(Get(self_xc))
             /\ CacheAccess(o[1], o[2], w)
    \/ /\ pc = "idle" /\ self_xc # None
       /\ \E o \in Overrides, w \in Writes :
             /\ w # None => Get(w)[1] < Len(Get(self_xc))
             /\ CacheAccessFitRaises(o[1], o[2], w)

InitFit ==
    /\ InitPoint
    /\ pc = "idle"
    /\ ctor.class_type = "svm"
    /\ self_val # None
    /\ self_y_target = None

SpecFit == InitFit /\ [][NextFit]_vars

\* The environments and file systems _config_fpath is explored on: the
\* variable SECML_CONFIG, and a variable of the name $SECML_CONFIG, not set
\* or naming a file or a directory; any set of the files involved.
config_file == <<"etc", "my.conf">>
config_dir == <<"etc">>
EnvValues == {None, Some(config_file), Some(config_dir)}
Envs == [{"SECML_CONFIG", "$SECML_CONFIG"} -> EnvValues]
FileSystems ==
    SUBSET {join(cwd, SECML_CONFIG_FNAME), config_file,
            join(config_dir, SECML_CONFIG_FNAME),
            join(config_dir, "SECML_CONFIG_FNAME"),
            join(SECML_HOME_DIR, SECML_CONFIG_FNAME),
            join(install_dir, SECML_CONFIG_FNAME)}
ConfigCalcs ==
    {[kind |-> "config", env |-> e, files |-> f, ret |-> None] :
        e \in Envs, f \in FileSystems}

InitConfig ==
    /\ Constructed
    /\ pc = "idle"
    /\ ctor.class_type = "svm"
    /\ self_val # None
    /\ self_y_target = None
    /\ self_init_type = Some("random")
    /\ self_warm_start = None
    /\ calc \in ConfigCalcs

NextConfig == call_config_fpath

SpecConfig == InitConfig /\ [][NextConfig]_vars

\* The fitted SVMs and query points the provider is explored on.
Svms ==
    UNION {{[alpha |-> al, sv |-> sv, C |-> SvmC, preprocess |-> pp] :
            al \in [1..n -> -SvmC..SvmC], sv \in Matrices(n),
            pp \in BOOLEAN} : n \in 1..MaxSv}
Queries == UNION {Matrices(n) : n \in 1..MaxSamples}
SvmCalcs ==
    {[kind |-> "svm", clf |-> c, x |-> x, hessian |-> None,
      fd_params |-> None] : c \in Svms, x \in Queries}

InitSvm ==
    /\ Constructed
    /\ pc = "idle"
    /\ ctor.class_type = "svm"
    /\ self_val # None
    /\ self_y_target = None
    /\ self_init_type = Some("random")
    /\ self_warm_start = None
    /\ calc \in SvmCalcs

NextSvm == call_hessian \/ call_fd_params

SpecSvm == InitSvm /\ [][NextSvm]_vars

\* The classifiers a retraining may leave: MaxSv support vectors, each on
\* the margin (alpha = tol) or at the bound (alpha = C), no preprocess.
RetrainedSvms ==
    {[alpha |-> al, sv |-> sv, C |-> SvmC, preprocess |-> FALSE] :
        al \in [1..MaxSv -> {Tol, SvmC}],
        sv \in {v \in Matrices(MaxSv) : v[1] = MaxVal}}

\* _run on an attack on an SVM whose gradient solves iteratively, for the
\* points of a poisoning set of MaxPoints zero rows.
NextSolve ==
    \/ /\ pc = "idle"
       /\ \E idx \in 0..(MaxPoints - 1) :
             call_run([j \in 1..MaxPoints |-> 0],
                      [j \in 1..MaxPoints |-> 0], idx)
    \/ pc = "solve" /\ \E a \in Args, svm \in RetrainedSvms :
                           objective_function_gradient_svm(a, svm)
    \/ return_run

SpecSolve == InitFit /\ [][NextSolve]_vars

\* The inputs of the gradient routines: symmetric matrices H of dimension
\* 1 and 2 with entries of -1..MaxEntry, one-row matrices G and vectors
\* grad_loss_params of that dimension; the warm starts an earlier iterative
\* solve of the same optimizer call may have left; raw gradients of one and
\* two features.
Entries == -1..MaxEntry
SymMatrices ==
    {<<<<a>>>> : a \in Entries} \cup
    {<<<<a, b>>, <<b, d>>>> : a \in Entries, b \in Entries, d \in Entries}
Rows(n) == {g \in [1..n -> 0..1] : g[1] = 1}
Params(n) == [1..n -> 0..1]
WarmStarts == {None, Some(<<F(1)>>), Some(<<F(0), F(1)>>)}
Grads == UNION {[1..n -> -MaxGrad..MaxGrad] : n \in {1, 2}}
Calcs ==
    UNION {{[kind |-> "hyper", G |-> <<g>>, H |-> H, grad_loss_params |-> b,
             inv |-> None, solve |-> None, iter |-> None, seed |-> None] :
            g \in Rows(Len(H)), b \in Params(Len(H))} : H \in SymMatrices}
    \cup {[kind |-> "norm", grad |-> g, normalization |-> n, ret |-> None] :
             g \in Grads, n \in BOOLEAN}

\* A built attack on which a gradient is about to be computed.
InitGrad ==
    /\ Constructed
    /\ pc = "idle"
    /\ ctor.class_type = "svm"
    /\ self_val # None
    /\ self_y_target = None
    /\ self_init_type = Some("random")
    /\ calc \in Calcs
    /\ self_warm_start \in
          (IF calc.kind = "hyper" THEN WarmStarts ELSE {None})

NextGrad ==
    \/ call_compute_grad_inv
    \/ call_compute_grad_solve
    \/ call_compute_grad_solve_iterative
    \/ normalize_gradient

SpecGrad == InitGrad /\ [][NextGrad]_vars

\* --------------------------------------------------------------- claims --
Res == Get(result)
Poisoned == result # None /\ Res.kind = "poisoned"
Early == result # None /\ Res.kind = "early"

\* C1: in every run with n_points > 0 the classifier whose predictions run
\* returns is a deep copy of the true classifier refitted on the true
\* training set plus the poisoning points, never the cached copy of the
\* surrogate classifier.
C1_ReturnsRefittedTrueClassifier ==
    Poisoned =>
        /\ Get(Res.clf).obj = "copy"
        /\ Get(Res.clf).base = "classifier"
        /\ Get(Res.clf).tr.base = "training_data"
        /\ Get(Res.clf).tr.X = Get(self_xc)

\* C2 as stated: a cache access made when a cached classifier exists and
\* the feature matrix has the content it had at the previous access does
\* not retrain.
C2_UnchangedNeverRetrains ==
    (acc.any /\ acc.had_clf /\ acc.had_prev /\ ~acc.changed) => acc.fits = 0

\* C2 as amended: a cache access made when a cached classifier exists, the
\* feature matrix has the content it had at the previous access and the
\* previous access was not an override access that retrained (which clears
\* the stored fingerprint) does not retrain.
C2_UnchangedNoRetrainUnlessCleared ==
    (acc.any /\ acc.had_clf /\ acc.had_prev /\ ~acc.changed
        /\ ~acc.after_override_fit) => acc.fits = 0

C2_Witness ==
    /\ acc.any /\ acc.had_clf /\ acc.had_prev /\ ~acc.changed
    /\ ~acc.after_override_fit /\ acc.override /\ acc.fits = 0

\* C3: when a feature of a poisoning point has changed since the previous
\* cache access, the next access retrains exactly once: one deep copy of
\* the base classifier, fitted on the set augmented with the new matrix.
C3_ChangedRetrainsOnce ==
    (acc.any /\ acc.changed) =>
        /\ acc.fits = 1
        /\ acc.clf.obj = "copy"
        /\ acc.clf.tr.X = acc.X
        /\ self_poisoned_clf = Some(acc.clf)

C3_Witness ==
    /\ acc.any /\ acc.changed /\ acc.had_clf /\ acc.fits = 1
    /\ Len(acc.X) = 2

\* C4: every canonical cache call returns a copy of the surrogate
\* classifier fitted on the surrogate set plus the current poisoning points
\* (features and labels), whatever override calls and runs came before.
C4_CanonicalReturnsSurrogateOnCurrentPoints ==
    (acc.any /\ ~acc.override) =>
        /\ acc.clf.obj = "copy"
        /\ acc.clf.base = "surrogate_classifier"
        /\ acc.clf.tr.base = "surrogate_data"
        /\ acc.clf.tr.X = acc.X
        /\ acc.clf.tr.Y = acc.Y

\* C5: in every round of run with n points the optimizer is invoked once
\* per point index, in the order n-1, n-2, ..., 0.
C5_ReverseOrderOncePerRound ==
    (pc \in {"while", "for", "final"} /\ probe.rounds > 0) =>
        /\ \A j \in DOMAIN probe.order :
              probe.order[j] = Get(self_n_points) - j
        /\ pc = "for" => Len(probe.order) = i
        /\ pc # "for" => Len(probe.order) = Get(self_n_points)
        /\ probe.opt_calls =
              (probe.rounds - 1) * Get(self_n_points) + Len(probe.order)

C5_Witness ==
    /\ pc = "while" /\ probe.rounds = 2
    /\ self_n_points = Some(MaxPoints)
    /\ probe.order = [j \in 1..MaxPoints |-> MaxPoints - j]

C7_SinglePointOneCall ==
    (Poisoned /\ Res.probe.n = Some(1)) =>
        Res.probe.rounds = 1 /\ Res.probe.opt_calls = 1

C7_Witness ==
    Poisoned /\ Res.probe.n = Some(1) /\ Res.probe.max_iter = 0

\* C8: with n_points 0 or unset, run returns at once the unmodified true
\* classifier's predictions, ds_init as passed and the objective 0, with no
\* initialization, optimizer call or retraining, and leaves the poisoning
\* set, the fingerprint and the cached classifier as they were.
C8_EarlyExit ==
    [][(runs' # runs /\ (self_n_points = None \/ self_n_points = Some(0))) =>
         /\ result' # None
         /\ Get(result').kind = "early"
         /\ Get(result').clf = Some(classifier)
         /\ Get(result').ds = Get(result').probe.ds_init
         /\ Get(result').f_opt = Some(0)
         /\ Get(result').probe.init_calls = 0
         /\ Get(result').probe.opt_calls = 0
         /\ Get(result').probe.fits = 0
         /\ pc' = "idle"
         /\ UNCHANGED <<self_xc, self_yc, self_xc_hash, self_poisoned_clf,
                        acc>>]_vars

C8_Witness ==
    /\ Early /\ Res.ds # None /\ self_poisoned_clf # None
    /\ Res.probe.n = Some(0)

\* C9: for every n_points that is unset or not positive (None, 0, negative)
\* run is the early exit: no error, no attempt to initialize points.
C9_NonPositiveIsEarlyExit ==
    (result # None /\ (Res.probe.n = None \/ Get(Res.probe.n) <= 0)) =>
        Res.kind = "early" /\ Res.probe.init_calls = 0

\* C10: the classifier whose predictions run returns was fitted on a set
\* augmented with exactly the poisoning points run returns.
C10_FittedOnReturnedPoints ==
    Poisoned =>
        /\ Get(Res.clf).tr.X = Get(Res.ds).X
        /\ Get(Res.clf).tr.Y = Get(Res.ds).Y

\* A step that is a callback made on more than one sample.
MultiSampleCallback ==
    pc = "solve" /\ arg' # None /\ n_samples(Get(arg')) > 1

\* A step that is a callback made on one sample.
SingleSampleCallback ==
    pc = "solve" /\ arg' # None /\ n_samples(Get(arg')) = 1

\* C11: the objective and its gradient, called with more than one sample,
\* raise TypeError at the call and leave the poisoning matrix, the stored
\* fingerprint and the cached classifier as they were: no cache access, no
\* retraining.
C11_MultiSampleRaisesAndLeavesState ==
    [][MultiSampleCallback =>
         /\ raised' = Some("TypeError")
         /\ pc' = "idle"
         /\ UNCHANGED <<self_xc, self_yc, self_xc_hash, self_poisoned_clf,
                        acc, objects>>]_vars

C11_Witness ==
    /\ pc = "idle" /\ raised = Some("TypeError")
    /\ arg # None /\ n_samples(Get(arg)) = MaxSamples
    /\ self_poisoned_clf # None /\ self_xc_hash # None

\* C12: every label _rnd_init_poisoning_points assigns differs from the
\* true label of the sample the point was drawn from.
C12_FlippedLabelDiffers ==
    (pc \in {"while", "for", "final"}) =>
        /\ Len(probe.yc_init) = Get(self_n_points)
        /\ Len(probe.y_true) = Get(self_n_points)
        /\ \A j \in DOMAIN probe.yc_init :
              probe.yc_init[j] # probe.y_true[j]

C12_Witness ==
    /\ pc = "while" /\ probe.rounds = 0
    /\ probe.y_true = <<0, 1>> /\ probe.yc_init = <<1, 0>>

\* C13: _run calls the optimizer once, maximize if no target label is set
\* and minimize if one is, seeded at the current features of the point to
\* optimize; the call stays the same until _run returns.
C13_MaximizeOrMinimizeFromCurrentPoint ==
    /\ [][(pc = "idle" /\ pc' = "solve") =>
            /\ solver' # None
            /\ Get(solver').call =
                  (IF self_y_target = None THEN "maximize" ELSE "minimize")
            /\ Get(solver').x0 = Get(self_xc')[Get(self_idx') + 1]
            /\ Get(solver').evals = 0]_vars
    /\ [][(pc = "solve" /\ pc' = "solve") =>
            /\ Get(solver').call = Get(solver).call
            /\ Get(solver').x0 = Get(solver).x0
            /\ UNCHANGED self_idx]_vars

C13_Witness ==
    /\ pc = "solve" /\ self_y_target # None
    /\ Get(solver).call = "minimize" /\ Get(solver).evals = MaxEvals
    /\ self_idx = Some(1)

\* C14: an attack built without a validation set never initializes
\* poisoning points, calls the optimizer or retrains a classifier: run is
\* rejected before that.
C14_NoValidationSetRejectedAtStart ==
    (pc # "failed" /\ self_val = None) =>
        /\ probe.init_calls = 0
        /\ probe.opt_calls = 0
        /\ self_poisoned_clf = None
        /\ result # None =>
              /\ Res.probe.init_calls = 0
              /\ Res.probe.opt_calls = 0
              /\ Res.probe.fits = 0

\* A call of run on an attack whose init_type is not 'random'.
RunNotRandom == runs' # runs /\ self_init_type # Some("random")

\* What C15 says of such a call: NotImplementedError and no result, nothing
\* initialized, optimized or retrained.
FailsNotImplemented ==
    /\ raised' = Some("NotImplementedError")
    /\ Get(result').kind = "error"
    /\ Get(result').probe.init_calls = 0
    /\ Get(result').probe.opt_calls = 0
    /\ Get(result').probe.fits = 0
    /\ pc' = "idle"
    /\ UNCHANGED <<self_xc, self_yc, self_xc_hash, self_poisoned_clf, acc,
                   objects>>

\* C15 as stated: every run whose init_type is loss_based or anything but
\* random raises NotImplementedError instead of returning a result, before
\* any point is optimized or any classifier retrained.
C15_NotRandomAlwaysFails ==
    [][RunNotRandom => FailsNotImplemented]_vars

\* C15 as amended: so does every such run that is not the early exit
\* (n_points set and not zero).
C15_NotRandomFailsUnlessEarlyExit ==
    [][(RunNotRandom /\ ~is_early_exit(self_n_points)) =>
         FailsNotImplemented]_vars

C15_Witness ==
    /\ raised = Some("NotImplementedError") /\ result # None
    /\ Res.kind = "error" /\ Res.probe.n = Some(MaxPoints)
    /\ self_init_type = Some("loss_based") /\ runs = MaxRuns

\* The families __init__ names.
Supported == {"svm", "logistic", "ridge"}

\* The loss C16 names for a family.
LossOf(class_type) ==
    IF class_type = "svm" THEN "hinge"
    ELSE IF class_type = "logistic" THEN "log" ELSE "square"

\* An attack object exists only for svm, logistic, ridge, with the loss
\* hinge, log, square.
BuiltOnlySupported ==
    pc # "failed" =>
        /\ ctor.class_type \in Supported
        /\ self_attacker_loss = Some(LossOf(ctor.class_type))

\* C16 as stated: an attack object exists only for svm, logistic, ridge,
\* with the loss hinge, log, square; for any other family the constructor
\* raises NotImplementedError and there is no attack object.
C16_OtherFamilyNotImplemented ==
    /\ BuiltOnlySupported
    /\ ctor.class_type \notin Supported =>
          /\ pc = "failed"
          /\ raised = Some("NotImplementedError")
          /\ self_attacker_loss = None

\* C16 as amended: for any other family there is no attack object; the
\* constructor raises NotImplementedError, or the ValueError of the
\* discrete test, which comes first, when a discrete space is asked for.
C16_OtherFamilyFails ==
    /\ BuiltOnlySupported
    /\ ctor.class_type \notin Supported =>
          /\ pc = "failed"
          /\ raised = (IF ctor.discrete THEN Some("ValueError")
                       ELSE Some("NotImplementedError"))
          /\ self_attacker_loss = None

C16_Witness ==
    /\ pc = "failed" /\ ctor.class_type = "other" /\ ~ctor.discrete
    /\ raised = Some("NotImplementedError") /\ self_attacker_loss = None

\* C19: the objects handed to the constructor (true and surrogate
\* classifier, the training sets, the validation set) keep their content;
\* what a retraining fits is a copy, on a dataset that is none of them.
C19_BaseObjectsNeverChange ==
    /\ objects = Objects0
    /\ self_poisoned_clf # None => Get(self_poisoned_clf).obj = "copy"
    /\ (acc.any /\ acc.fits > 0) =>
          /\ acc.clf.obj = "copy"
          /\ acc.clf.tr \notin {training_data, surrogate_data}
          /\ acc.clf.tr.X = acc.X

C19_Witness ==
    /\ acc.any /\ acc.override /\ acc.fits = 1 /\ acc.had_clf
    /\ acc.clf.base = "classifier" /\ acc.clf.tr.base = "training_data"
    /\ objects = Objects0

\* C20: a callback made while point idx is optimized writes its argument
\* into row idx of the poisoning matrix and leaves every other row, every
\* label and the index as they were.
C20_CallbackWritesActiveRowOnly ==
    [][SingleSampleCallback =>
         /\ self_xc' = Some([Get(self_xc) EXCEPT
                               ![Get(self_idx) + 1] = Get(arg')[1]])
         /\ UNCHANGED <<self_yc, self_idx>>]_vars

\* The same at the level of run: while run is in its loop the labels are
\* those of the initialization and warm-start overwrite, and self._xc
\* differs from the matrix of run in the row of the last point only.
LabelsFixedInRun ==
    (pc \in {"while", "for", "final"}) =>
        /\ yc = probe.yc_start
        /\ probe.opt_calls > 0 =>
              /\ self_yc = Some(yc)
              /\ \A j \in DOMAIN xc :
                    j # Get(self_idx) + 1 => Get(self_xc)[j] = xc[j]

C20_Witness ==
    /\ pc = "solve" /\ self_idx = Some(1) /\ Get(solver).evals = MaxEvals
    /\ arg = Some(<<MaxVal>>) /\ Get(self_xc) = <<0, MaxVal>>
    /\ Get(solver).x0 = 0

\* The results calc holds of the three strategies.
Computed == {calc.inv, calc.solve, calc.iter} \ {None}

\* C17: on a well-conditioned triple (H, G, grad_loss_params) the three
\* strategies return the same gradient: none raises, and the values of any
\* two of them are equal.
C17_StrategiesAgree ==
    (calc.kind = "hyper" /\ Det(calc.H) # 0) =>
        \A a \in Computed, b \in Computed :
            Get(a).raised = None /\ Get(a).gt = Get(b).gt

\* The sum of the squares of the components of a vector of integers.
RECURSIVE SumOfSquares(_)
SumOfSquares(v) ==
    IF v = <<>> THEN 0 ELSE Head(v) * Head(v) + SumOfSquares(Tail(v))

C30_FinalizationReadsCurrentRun ==
    pc = "final" =>
        /\ probe.opt_calls > 0
        /\ self_xc # None /\ self_yc = Some(yc)
        /\ self_f_opt = Some(runs)

\* A step that makes a canonical cache access (no overrides).
CanonicalAccessStep == acc' # acc /\ acc'.any /\ ~acc'.override

\* C28: the classifier a canonical cache access returns was fitted on the
\* surrogate set plus the current poisoning features with the current
\* poisoning labels; when the labels differ from those of the cached fit,
\* the access retrains.
C28_CanonicalFitsCurrentLabels ==
    [][CanonicalAccessStep =>
         /\ acc'.clf.tr =
               append(surrogate_data, CDataset(acc'.X, acc'.Y))
         /\ (self_poisoned_clf # None
             /\ Get(self_poisoned_clf).tr.Y # acc'.Y) => acc'.fits = 1]_vars

\* C27: a fit that raised does not leave the cache valid for the current
\* poisoning matrix: the canonical access that follows it with the same
\* matrix retrains, and a canonical access that returns returns a
\* classifier fitted on the matrix it was made with.
C27_FailedFitIsRetried ==
    /\ [][(raised = Some("FitError") /\ CanonicalAccessStep
           /\ raised' = None /\ self_xc' = self_xc) => acc'.fits = 1]_vars
    /\ [][(CanonicalAccessStep /\ raised' = None) =>
             acc'.clf.tr.X = acc'.X]_vars

\* The files C26 names, from the highest to the lowest priority, for the
\* value v of the environment variable SECML_CONFIG.
ConfigPriority(v) ==
    <<join(cwd, SECML_CONFIG_FNAME)>>
    \o (IF v = None THEN <<>>
        ELSE <<Get(v), join(Get(v), SECML_CONFIG_FNAME)>>)
    \o <<join(SECML_HOME_DIR, SECML_CONFIG_FNAME),
         join(install_dir, SECML_CONFIG_FNAME)>>

\* C26: _config_fpath returns the existing files among $PWD/secml-lib.conf,
\* SECML_CONFIG, SECML_CONFIG/secml-lib.conf, SECML_HOME_DIR/secml-lib.conf
\* and the installed copy, in that order; a file or a directory with
\* secml-lib.conf that SECML_CONFIG names is in the list.
C26_ConfigFilesInPriorityOrder ==
    (calc.kind = "config" /\ calc.ret # None) =>
        LET exists(fname) == file_exist(calc.files, fname)
        IN  Get(calc.ret) =
                SelectSeq(ConfigPriority(calc.env["SECML_CONFIG"]), exists)

\* The margin points of a fitted SVM as C25 names them: the support
\* vectors whose dual coefficient magnitude lies between tol and C - tol.
MarginPoints(clf) ==
    {j \in DOMAIN clf.alpha :
        Tol <= Abs(clf.alpha[j]) /\ Abs(clf.alpha[j]) <= clf.C - Tol}

\* The margin support vectors, in the order of the support vectors.
MarginVectors(clf) ==
    LET in_margin(j) == j \in MarginPoints(clf)
        idx == SelectSeq([j \in DOMAIN clf.alpha |-> j], in_margin)
    IN  [j \in DOMAIN idx |-> clf.sv[idx[j]]]

\* C23: hessian, called on a fitted classifier without margin points,
\* returns a result of size zero and does not raise.
C23_NoMarginHessianIsEmpty ==
    (calc.kind = "svm" /\ calc.hessian # None
     /\ MarginPoints(calc.clf) = {}) =>
        /\ Get(calc.hessian).raised = None
        /\ Get(calc.hessian).gt \in {Some(None), Some(<<>>)}

\* C24: fd_params, called with k query points on a fitted classifier with
\* s >= 1 margin support vectors, returns the k x (s+1) matrix of the
\* kernel evaluations between the query points (normalized if a preprocess
\* is attached) and the margin support vectors, with a last column of ones.
C24_FdParamsIsKernelMatrixWithOnes ==
    (calc.kind = "svm" /\ calc.fd_params # None
     /\ MarginPoints(calc.clf) # {}) =>
        LET xs == MarginVectors(calc.clf)
            s == Len(xs)
            x == IF calc.clf.preprocess THEN normalize(calc.x) ELSE calc.x
        IN  /\ Get(calc.fd_params).raised = None
            /\ Get(calc.fd_params).gt =
                  Some(Some([a \in 1..Len(x) |-> [b \in 1..(s + 1) |->
                      IF b <= s THEN kernel_k(x[a], xs[b]) ELSE 1]]))

\* C25: for a fitted SVM with s >= 1 margin points hessian returns the
\* (s+1) x (s+1) matrix whose top-left block is the kernel Gram matrix of
\* the margin support vectors, whose last row and column are ones and whose
\* bottom-right corner is 0.
C25_HessianIsBorderedGram ==
    (calc.kind = "svm" /\ calc.hessian # None
     /\ MarginPoints(calc.clf) # {}) =>
        LET xs == MarginVectors(calc.clf)
            s == Len(xs)
            H == Get(Get(calc.hessian).gt)
        IN  /\ Get(calc.hessian).raised = None
            /\ DOMAIN H = 1..(s + 1)
            /\ \A a \in 1..(s + 1) :
                  /\ DOMAIN H[a] = 1..(s + 1)
                  /\ \A b \in 1..(s + 1) :
                        /\ (a <= s /\ b <= s) =>
                              H[a][b] = kernel_k(xs[a], xs[b])
                        /\ (a = s + 1 /\ b <= s) => H[a][b] = 1
                        /\ (a <= s /\ b = s + 1) => H[a][b] = 1
                        /\ (a = s + 1 /\ b = s + 1) => H[a][b] = 0

C25_Witness ==
    /\ calc.kind = "svm" /\ calc.hessian # None
    /\ calc.clf.alpha = <<Tol, -(SvmC - Tol)>> /\ calc.clf.sv = <<1, 0>>
    /\ Get(calc.hessian).gt = Some(<<<<1, 0, 1>>, <<0, 0, 1>>, <<1, 1, 0>>>>)


\* A step that ran the iterative solve of a gradient evaluation inside an
\* optimization: either the evaluation was counted or the solver raised.
IterativeSolveStep ==
    /\ pc = "solve"
    /\ calc'.kind = "iter"
    /\ IF solver' = None
       THEN raised' = Some("ValueError")
       ELSE Get(solver').solves = Get(solver).solves + 1

\* C21: the first iterative solve of an optimization is seeded with no
\* warm start, whatever an earlier optimization of a point had stored.
C21_FirstSolveStartsCold ==
    [][(IterativeSolveStep /\ Get(solver).solves = 0)
           => (self_warm_start = None /\ ~calc'.seeded)]_vars

C21_Witness ==
    /\ pc = "solve"
    /\ Get(solver).solves = 1
    /\ calc.kind = "iter"
    /\ calc.before
    /\ ~calc.seeded
    /\ calc.out.raised = None
    /\ self_warm_start # None

\* C22: every iterative solve, converged or not, stores its solution as the
\* next warm start and returns minus G times this solution; no exception
\* reaches the optimizer.
C22_SolveStoresAndReturns ==
    [][IterativeSolveStep
           => /\ raised' = None
              /\ pc' = "solve"
              /\ self_warm_start' # None
              /\ Len(Get(self_warm_start')) = calc'.dim
              /\ calc'.out =
                     Returns(MinusGDot(<<[j \in 1..calc'.dim |-> 1]>>,
                                       Get(self_warm_start')))]_vars

\* C29: a warm start that seeds an iterative solve has the dimension of
\* the matrix H of this solve.
C29_WarmStartMatchesSystem ==
    [][(IterativeSolveStep /\ self_warm_start # None)
           => Len(Get(self_warm_start)) = calc'.dim]_vars

====
